---- MODULE Spec2Model ----
(***************************************************************************)
(* Layered configuration of config_playground (src/main.rs).               *)
(*                                                                         *)
(* main parses the command line, calls get_configuration and prints the    *)
(* resolved Settings.  get_configuration layers four sources, lowest to    *)
(* highest priority: the compiled-in baseline (TOML), the runtime file     *)
(* ./configuration/settings.toml, the CONFIG_PLAYGROUND__ environment      *)
(* variables and the JSON document serialized from OptionalSettings, and   *)
(* deserializes the merged tree into Settings.                             *)
(*                                                                         *)
(* Strings are sequences of one-character strings, so that the numeric     *)
(* coercion of somestruct.someint really parses its input.  A u64 is a     *)
(* sequence of decimal digits without leading zeros (2^64 does not fit the *)
(* model checker's integers).                                              *)
(***************************************************************************)
EXTENDS Integers, Sequences, FiniteSets, TLC

VARIABLES
    baseCfg,            \* BASE_CFG: text of configuration/base.toml (include_str!)
    cwdOk,              \* whether std::env::current_dir() succeeds
    runtimeFile,        \* content of <cwd>/configuration/settings.toml, or NotFound
    environ,            \* process environment: variable name -> value
    argSomestring,      \* --somestring given on the command line (Option<String>)
    optional_settings,  \* Cli::parse().optional_settings
    settings,           \* the built config::Config cache inside get_configuration
    result,             \* anyhow::Result<Settings> returned by get_configuration
    stdout,             \* lines written by println!
    pc                  \* position of main

vars == <<baseCfg, cwdOk, runtimeFile, environ, argSomestring,
          optional_settings, settings, result, stdout, pc>>

(***************************************************************************)
(* Bounds of the explored inputs.                                           *)
(***************************************************************************)
MaxFileKeys == 2    \* keys a runtime file sets at once
MaxEnvVars == 2     \* environment variables set at once

(***************************************************************************)
(* Option<T>                                                               *)
(***************************************************************************)
None == <<>>
Some(x) == <<x>>
IsSome(o) == Len(o) = 1
Unwrap(o) == o[1]

(***************************************************************************)
(* config::Value                                                           *)
(***************************************************************************)
Nil == [kind |-> "Nil", val |-> "nil"]
Boolean(b) == [kind |-> "Boolean", val |-> b]
I64(i) == [kind |-> "I64", val |-> i]
String(s) == [kind |-> "String", val |-> s]
Table(m) == [kind |-> "Table", val |-> m]
EmptyMap == [k \in {} |-> Nil]
EmptyTable == Table(EmptyMap)

Put(m, k, v) == [x \in (DOMAIN m) \cup {k} |-> IF x = k THEN v ELSE m[x]]

ForceTable(v) == IF v.kind = "Table" THEN v ELSE EmptyTable

(***************************************************************************)
(* config::path::Expression::set.  SetIdentifier is the Identifier arm:    *)
(* an incoming table is merged key by key into the table already there, an *)
(* incoming scalar replaces what is there.  SetPath is the Child arm over  *)
(* a dotted key: every parent on the way is forced to be a table.          *)
(***************************************************************************)
RECURSIVE SetIdentifier(_, _, _), MergeKeys(_, _, _)

MergeKeys(target, incoming, keys) ==
    IF keys = {} THEN target
    ELSE LET k == CHOOSE x \in keys : TRUE
         IN MergeKeys(SetIdentifier(target, k, incoming[k]), incoming, keys \ {k})

\* A mutant of SetIdentifier: an incoming table replaces the one below it.
SetIdentifierShallow(root, id, value) ==
    Table(Put(ForceTable(root).val, id, value))

SetIdentifier(root, id, value) ==
    LET r == ForceTable(root)
    IN IF value.kind = "Table"
       THEN LET target == IF id \in DOMAIN r.val THEN r.val[id] ELSE EmptyTable
            IN Table(Put(r.val, id, MergeKeys(target, value.val, DOMAIN value.val)))
       ELSE Table(Put(r.val, id, value))

RECURSIVE SetPath(_, _, _)
SetPath(root, path, value) ==
    IF Len(path) = 1 THEN SetIdentifier(root, path[1], value)
    ELSE LET r == ForceTable(root)
             child == IF path[1] \in DOMAIN r.val THEN r.val[path[1]] ELSE Nil
         IN Table(Put(r.val, path[1], SetPath(ForceTable(child), Tail(path), value)))

\* ConfigBuilder::build: the top-level keys of one source are set one by one.
MergeSource(cache, doc) == MergeKeys(cache, doc, DOMAIN doc)

(***************************************************************************)
(* Result<T, E>                                                            *)
(***************************************************************************)
Ok(x) == [ok |-> TRUE, val |-> x]
Err(e) == [ok |-> FALSE, err |-> e]

(***************************************************************************)
(* Characters.  to_lowercase is modelled on the letters the inputs use.    *)
(***************************************************************************)
DigitVal ==
    [c \in {"0", "1", "2", "3", "4", "5", "6", "7", "8", "9"} |->
        CASE c = "0" -> 0 [] c = "1" -> 1 [] c = "2" -> 2 [] c = "3" -> 3
          [] c = "4" -> 4 [] c = "5" -> 5 [] c = "6" -> 6 [] c = "7" -> 7
          [] c = "8" -> 8 [] c = "9" -> 9]
DigitChar == [d \in 0..9 |-> CHOOSE c \in DOMAIN DigitVal : DigitVal[c] = d]

LowerChar(c) ==
    CASE c = "Y" -> "y" [] c = "E" -> "e" [] c = "S" -> "s" [] c = "N" -> "n"
      [] c = "O" -> "o" [] OTHER -> c
ToLowercase(s) == [i \in 1..Len(s) |-> LowerChar(s[i])]

(***************************************************************************)
(* u64 as a canonical digit sequence, and u64::from_str.                   *)
(***************************************************************************)
U64Max == <<1, 8, 4, 4, 6, 7, 4, 4, 0, 7, 3, 7, 0, 9, 5, 5, 1, 6, 1, 5>>

RECURSIVE Canon(_)
Canon(ds) == IF Len(ds) > 1 /\ ds[1] = 0 THEN Canon(Tail(ds)) ELSE ds

RECURSIVE LexGreater(_, _)
LexGreater(a, b) ==
    IF a = <<>> THEN FALSE
    ELSE IF a[1] # b[1] THEN a[1] > b[1]
    ELSE LexGreater(Tail(a), Tail(b))

\* a > b for canonical digit sequences
Exceeds(a, b) == Len(a) > Len(b) \/ (Len(a) = Len(b) /\ LexGreater(a, b))

\* The digit loop of from_str_radix: checked_mul(10) then checked_add(digit).
RECURSIVE ParseDigits(_, _)
ParseDigits(acc, rest) ==
    IF rest = <<>> THEN Ok(acc)
    ELSE IF rest[1] \notin DOMAIN DigitVal THEN Err("InvalidDigit")
    ELSE LET next == Canon(acc \o <<DigitVal[rest[1]]>>)
         IN IF Exceeds(next, U64Max) THEN Err("PosOverflow")
            ELSE ParseDigits(next, Tail(rest))

\* <u64 as FromStr>::from_str: an empty string and a lone sign are errors, a
\* leading "+" is accepted, a leading "-" is an invalid digit of an unsigned type.
ParseU64(s) ==
    IF s = <<>> THEN Err("Empty")
    ELSE IF Len(s) = 1 /\ s[1] \in {"+", "-"} THEN Err("InvalidDigit")
    ELSE ParseDigits(<<0>>, IF s[1] = "+" THEN Tail(s) ELSE s)

RECURSIVE NatDigits(_)
NatDigits(n) == IF n < 10 THEN <<n>> ELSE NatDigits(n \div 10) \o <<n % 10>>

\* i64::to_string
I64ToString(i) ==
    LET ds == NatDigits(IF i < 0 THEN -i ELSE i)
        cs == [k \in 1..Len(ds) |-> DigitChar[ds[k]]]
    IN IF i < 0 THEN <<"-">> \o cs ELSE cs

(***************************************************************************)
(* Deserialization of config::Value into the field types of Settings.      *)
(***************************************************************************)
TrueWords == {<<"1">>, <<"t", "r", "u", "e">>, <<"o", "n">>, <<"y", "e", "s">>}
FalseWords == {<<"0">>, <<"f", "a", "l", "s", "e">>, <<"o", "f", "f">>, <<"n", "o">>}

\* Value::into_bool
IntoBool(v) ==
    CASE v.kind = "Boolean" -> Ok(v.val)
      [] v.kind = "I64" -> Ok(v.val # 0)
      [] v.kind = "String" ->
            IF ToLowercase(v.val) \in TrueWords THEN Ok(TRUE)
            ELSE IF ToLowercase(v.val) \in FalseWords THEN Ok(FALSE)
            ELSE Err("invalid type")
      [] OTHER -> Err("invalid type")

\* Value::into_string
IntoString(v) ==
    CASE v.kind = "String" -> Ok(v.val)
      [] v.kind = "Boolean" ->
            Ok(IF v.val THEN <<"t", "r", "u", "e">> ELSE <<"f", "a", "l", "s", "e">>)
      [] v.kind = "I64" -> Ok(I64ToString(v.val))
      [] OTHER -> Err("invalid type")

\* A mutant of deserialize_number_from_string: a string that does not parse
\* is read as 0 instead of failing.
deserialize_number_lenient(v) ==
    CASE v.kind = "String" ->
            IF ParseU64(v.val).ok THEN ParseU64(v.val) ELSE Ok(<<0>>)
      [] v.kind = "I64" -> IF v.val >= 0 THEN Ok(NatDigits(v.val)) ELSE Err("invalid value")
      [] OTHER -> Err("data did not match any variant")

\* serde_aux deserialize_number_from_string::<u64>: the untagged StringOrInt
\* takes a string and parses it, or takes a number as it is.
deserialize_number_from_string(v) ==
    CASE v.kind = "String" -> ParseU64(v.val)
      [] v.kind = "I64" -> IF v.val >= 0 THEN Ok(NatDigits(v.val)) ELSE Err("invalid value")
      [] OTHER -> Err("data did not match any variant")

\* Option<String>: Nil or an absent key is None, anything else is Some.
IntoOptionString(m, key) ==
    IF key \notin DOMAIN m \/ m[key].kind = "Nil" THEN Ok(None)
    ELSE LET r == IntoString(m[key]) IN IF r.ok THEN Ok(Some(r.val)) ELSE r

\* serde's error for a key a required field does not find.
MissingField == Err("missing field")

\* SomeStructSettings
IntoSomeStruct(v) ==
    IF v.kind # "Table" THEN Err("invalid type")
    ELSE LET someint == IF "someint" \notin DOMAIN v.val THEN MissingField
                      ELSE deserialize_number_from_string(v.val["someint"])
         IN IF someint.ok THEN Ok([someint |-> someint.val]) ELSE someint

\* Config::try_deserialize::<Settings>: the fields in declaration order, the
\* first failure is the error.
IntoSettings(cfg) ==
    LET m == cfg.val
        somebool == IF "somebool" \notin DOMAIN m THEN MissingField
                      ELSE IntoBool(m["somebool"])
        somestring == IF "somestring" \notin DOMAIN m THEN MissingField
                      ELSE IntoString(m["somestring"])
        somesecret == IF "somesecret" \notin DOMAIN m THEN MissingField
                      ELSE IntoString(m["somesecret"])
        somestruct == IF "somestruct" \notin DOMAIN m THEN MissingField
                      ELSE IntoSomeStruct(m["somestruct"])
        someoptionalstring == IntoOptionString(m, "someoptionalstring")
    IN IF ~somebool.ok THEN somebool
       ELSE IF ~somestring.ok THEN somestring
       ELSE IF ~somesecret.ok THEN somesecret
       ELSE IF ~somestruct.ok THEN somestruct
       ELSE IF ~someoptionalstring.ok THEN someoptionalstring
       ELSE Ok([somebool |-> somebool.val, somestring |-> somestring.val,
                somesecret |-> somesecret.val, somestruct |-> somestruct.val,
                someoptionalstring |-> someoptionalstring.val])

(***************************************************************************)
(* The strings the inputs are drawn from.                                  *)
(***************************************************************************)
sBase == <<"b", "a", "s", "e">>
sRuntime == <<"r", "u", "n", "t", "i", "m", "e">>
sEnv == <<"e", "n", "v">>
sOverride == <<"o", "v", "e", "r", "r", "i", "d", "e">>
sSecret == <<"h", "u", "n", "t", "e", "r", "2">>
sOpt == <<"o", "p", "t">>
sOther == <<"o", "t", "h", "e", "r">>
sX == <<"x">>
sYes == <<"Y", "E", "S">>
s42 == <<"4", "2">>
s007 == <<"0", "0", "7">>
sPlus7 == <<"+", "7">>
sAbc == <<"a", "b", "c">>
sEmpty == <<>>
sU64Max == <<"1", "8", "4", "4", "6", "7", "4", "4", "0", "7",
             "3", "7", "0", "9", "5", "5", "1", "6", "1", "5">>
sU64MaxPlus1 == <<"1", "8", "4", "4", "6", "7", "4", "4", "0", "7",
                  "3", "7", "0", "9", "5", "5", "1", "6", "1", "6">>

(***************************************************************************)
(* Files.  A file's text either fails to parse or denotes a document: a    *)
(* map from top-level key to config::Value.                                *)
(***************************************************************************)
Malformed == [kind |-> "Malformed", doc |-> EmptyMap]
NotFound == [kind |-> "NotFound", doc |-> EmptyMap]
Toml(doc) == [kind |-> "Toml", doc |-> doc]

Pairs(S) == [k \in {p[1] : p \in S} |-> (CHOOSE p \in S : p[1] = k)[2]]
DistinctKeys(S) == \A p, q \in S : p[1] = q[1] => p = q

\* configuration/base.toml as the scenario of the documentation gives it
BaseScenario ==
    Pairs({<<"somebool", Boolean(FALSE)>>, <<"somestring", String(sBase)>>,
           <<"somesecret", String(sSecret)>>,
           <<"somestruct", Table(Pairs({<<"someint", I64(1)>>}))>>})
BaseAlt ==
    Pairs({<<"somebool", Boolean(TRUE)>>, <<"somestring", String(sBase)>>,
           <<"somesecret", String(sSecret)>>,
           <<"somestruct", Table(Pairs({<<"someint", String(<<"7">>)>>}))>>,
           <<"someoptionalstring", String(sOpt)>>})
BaseNoString ==
    Pairs({<<"somebool", Boolean(FALSE)>>, <<"somesecret", String(sSecret)>>,
           <<"somestruct", Table(Pairs({<<"someint", I64(1)>>}))>>})
ValidBaselines == {Toml(BaseScenario), Toml(BaseAlt)}
BaselineTexts == ValidBaselines \cup {Toml(BaseNoString), Malformed}

RuntimeEntries ==
    {<<"somestring", String(sRuntime)>>, <<"somebool", Boolean(TRUE)>>,
     <<"somestruct", Table(Pairs({<<"someint", I64(5)>>}))>>,
     <<"somestruct", Table(Pairs({<<"extra", I64(9)>>}))>>,
     <<"somestruct", String(sX)>>,
     <<"someoptionalstring", String(sOpt)>>}
RuntimeFiles ==
    {NotFound, Malformed} \cup
    {Toml(Pairs(S)) : S \in {T \in SUBSET RuntimeEntries :
                                Cardinality(T) <= MaxFileKeys /\ DistinctKeys(T)}}

(***************************************************************************)
(* The environment.  A variable name is the sequence of its segments, the  *)
(* parts that "__" separates: CONFIG_PLAYGROUND__SOMESTRUCT__SOMEINT is    *)
(* <<"CONFIG_PLAYGROUND", "SOMESTRUCT", "SOMEINT">>.                        *)
(***************************************************************************)
APP_NAME == "CONFIG_PLAYGROUND"

ToLowercaseName(n) ==
    CASE n = "CONFIG_PLAYGROUND" -> "config_playground"
      [] n = "APP" -> "app"
      [] n = "SOMESTRING" -> "somestring"
      [] n = "SOMEBOOL" -> "somebool"
      [] n = "SOMESTRUCT" -> "somestruct"
      [] n = "SOMEINT" -> "someint"
      [] n = "SOMEOPTIONALSTRING" -> "someoptionalstring"
      [] OTHER -> n

NumeralInputs == {s42, s007, sPlus7, sAbc, sEmpty, sU64Max, sU64MaxPlus1}

EnvEntries ==
    {<<<<"CONFIG_PLAYGROUND", "SOMESTRING">>, sEnv>>,
     <<<<"CONFIG_PLAYGROUND", "SOMEBOOL">>, sYes>>,
     <<<<"CONFIG_PLAYGROUND", "SOMESTRUCT">>, sX>>,
     <<<<"CONFIG_PLAYGROUND", "SOMEOPTIONALSTRING">>, sOpt>>,
     <<<<"APP", "SOMESTRING">>, sOther>>} \cup
    {<<<<"CONFIG_PLAYGROUND", "SOMESTRUCT", "SOMEINT">>, n>> : n \in NumeralInputs}
Environments ==
    {Pairs(S) : S \in {T \in SUBSET EnvEntries :
                          Cardinality(T) <= MaxEnvVars /\ DistinctKeys(T)}}

\* config::Environment::collect: the variables whose lowercased name starts
\* with the lowercased prefix and the separator; the rest of the name, with
\* the separator read as ".", is the key.
EnvKeys(env) ==
    {[name |-> n, path |-> [i \in 1..(Len(n) - 1) |-> ToLowercaseName(n[i + 1])]] :
        n \in {m \in DOMAIN env :
                Len(m) >= 2 /\ ToLowercaseName(m[1]) = ToLowercaseName(APP_NAME)}}

\* The orders in which build can visit the collected map.
Orders(S) ==
    {o \in [1..Cardinality(S) -> S] : \A i, j \in DOMAIN o : o[i] = o[j] => i = j}

\* Every value the environment yields is a string.
RECURSIVE ApplyEnv(_, _, _)
ApplyEnv(cache, env, order) ==
    IF order = <<>> THEN cache
    ELSE ApplyEnv(SetPath(cache, order[1].path, String(env[order[1].name])),
                  env, Tail(order))

(***************************************************************************)
(* OptionalSettings as a JSON document.  A JSON text is the sequence of    *)
(* its members; skip_serializing_none leaves an unset field out.           *)
(***************************************************************************)
\* A mutant of ToJson: without skip_serializing_none, None is written as null.
ToJsonWithNull(os) ==
    IF IsSome(os.somestring)
    THEN <<[key |-> "somestring", json |-> "string", chars |-> Unwrap(os.somestring)]>>
    ELSE <<[key |-> "somestring", json |-> "null", chars |-> <<>>]>>

\* serde_json::to_string(&optional_settings)
ToJson(os) ==
    IF IsSome(os.somestring)
    THEN <<[key |-> "somestring", json |-> "string", chars |-> Unwrap(os.somestring)]>>
    ELSE <<>>

\* config::File::from_str(.., FileFormat::Json)
ParseJson(text) ==
    Pairs({<<text[i].key,
             IF text[i].json = "null" THEN Nil ELSE String(text[i].chars)>> :
           i \in 1..Len(text)})

(***************************************************************************)
(* get_configuration                                                       *)
(***************************************************************************)
Stages == {"current_dir", "serialize", "baseline", "runtime_file",
           "environment", "overrides", "deserialize"}

\* A mutant of ContextOf: the deserialization failure carries the build context.
ContextOfBuildEverywhere(stage) ==
    CASE stage = "current_dir" -> "Failed to determine current directory"
      [] stage = "serialize" -> "Couldn't parse user provided settings"
      [] OTHER -> "Couldn't build settings"

\* The anyhow context each `?` of get_configuration attaches.  The four
\* sources are collected inside the one build() call and share its context.
ContextOf(stage) ==
    CASE stage = "current_dir" -> "Failed to determine current directory"
      [] stage = "serialize" -> "Couldn't parse user provided settings"
      [] stage \in {"baseline", "runtime_file", "environment", "overrides"} ->
            "Couldn't build settings"
      [] stage = "deserialize" -> "Error deserializing settings"

Fail(stage, cause) ==
    Err([context |-> ContextOf(stage), stage |-> stage, cause |-> cause])

\* config::File::from and File::from_str leave `required` at its default.
FileRequired == TRUE

\* A mutant of CollectFile: a file that does not parse is skipped.
CollectFileSkippingMalformed(file) ==
    IF file.kind = "NotFound"
    THEN IF FileRequired THEN Err("not found") ELSE Ok(EmptyMap)
    ELSE Ok(file.doc)

\* config::File::collect: a source that cannot be read is an error when the
\* file is required and an empty map otherwise; a text that does not parse is
\* an error.
CollectFile(file) ==
    IF file.kind = "NotFound"
    THEN IF FileRequired THEN Err("not found") ELSE Ok(EmptyMap)
    ELSE IF file.kind = "Malformed" THEN Err("parse error")
    ELSE Ok(file.doc)

\* A mutant of Build: the environment is merged below the runtime file.
BuildEnvBelowRuntime(base, runtime, env, order, input_cfg) ==
    LET b == CollectFile(base)
        r == CollectFile(runtime)
    IN IF ~b.ok THEN Err([stage |-> "baseline", cause |-> b.err])
       ELSE IF ~r.ok THEN Err([stage |-> "runtime_file", cause |-> r.err])
       ELSE Ok(MergeSource(
                 MergeSource(ApplyEnv(MergeSource(EmptyTable, b.val), env, order),
                             r.val),
                 ParseJson(input_cfg)))

\* A mutant of Build: the runtime file replaces the tree below it.
BuildRuntimeReplaces(base, runtime, env, order, input_cfg) ==
    LET b == CollectFile(base)
        r == CollectFile(runtime)
    IN IF ~b.ok THEN Err([stage |-> "baseline", cause |-> b.err])
       ELSE IF ~r.ok THEN Err([stage |-> "runtime_file", cause |-> r.err])
       ELSE Ok(MergeSource(
                 ApplyEnv(IF DOMAIN r.val = {} THEN MergeSource(EmptyTable, b.val)
                          ELSE MergeSource(EmptyTable, r.val),
                          env, order),
                 ParseJson(input_cfg)))

\* ConfigBuilder::build over the four sources in the order they were added:
\* baseline, runtime file, environment, caller's JSON document.  The first
\* source that fails is the error.
Build(base, runtime, env, order, input_cfg) ==
    LET b == CollectFile(base)
        r == CollectFile(runtime)
    IN IF ~b.ok THEN Err([stage |-> "baseline", cause |-> b.err])
       ELSE IF ~r.ok THEN Err([stage |-> "runtime_file", cause |-> r.err])
       ELSE Ok(MergeSource(
                 ApplyEnv(MergeSource(MergeSource(EmptyTable, b.val), r.val),
                          env, order),
                 ParseJson(input_cfg)))

\* The Config built by get_configuration, when it gets that far.
BuiltConfig(os, order) ==
    IF ~cwdOk THEN Err([stage |-> "current_dir", cause |-> "io error"])
    ELSE Build(baseCfg, runtimeFile, environ, order, ToJson(os))

get_configuration(os, order) ==
    LET built == BuiltConfig(os, order)
    IN IF ~built.ok THEN Fail(built.err.stage, built.err.cause)
       ELSE LET s == IntoSettings(built.val)
            IN IF s.ok THEN Ok(s.val) ELSE Fail("deserialize", s.err)

(***************************************************************************)
(* main                                                                    *)
(***************************************************************************)
Lit(text) == [lit |-> text]
Quoted(s) == [quoted |-> s]
Raw(s) == [raw |-> s]
Num(ds) == [num |-> ds]

\* A mutant of DebugSecret: the secret is formatted like a plain String.
DebugSecretPlain(s) == Quoted(s)

\* <Secret<String> as Debug>::fmt
DebugSecret(s) == Lit("Secret([REDACTED alloc::string::String])")

\* println!("Settings: {:?}", settings) with the derived Debug of Settings
DebugSettings(s) ==
    <<Lit("Settings: Settings { somebool: "), Lit(IF s.somebool THEN "true" ELSE "false"),
      Lit(", somestring: "), Quoted(s.somestring),
      Lit(", somesecret: "), DebugSecret(s.somesecret),
      Lit(", somestruct: SomeStructSettings { someint: "), Num(s.somestruct.someint),
      Lit(" }, someoptionalstring: "),
      IF IsSome(s.someoptionalstring) THEN Quoted(Unwrap(s.someoptionalstring))
      ELSE Lit("None"),
      Lit(" }")>>

\* println!("Secret: {}", settings.somesecret.expose_secret())
SecretLine(s) == <<Lit("Secret: "), Raw(s.somesecret)>>

Init ==
    /\ baseCfg \in BaselineTexts
    /\ cwdOk \in BOOLEAN
    /\ runtimeFile \in RuntimeFiles
    /\ environ \in Environments
    /\ argSomestring \in {None, Some(sOverride)}
    /\ optional_settings = [somestring |-> None]
    /\ settings = None
    /\ result = None
    /\ stdout = <<>>
    /\ pc = "start"

inputs == <<baseCfg, cwdOk, runtimeFile, environ, argSomestring>>

\* let optional_settings = Cli::parse().optional_settings;
CliParse ==
    /\ pc = "start"
    /\ optional_settings' = [somestring |-> argSomestring]
    /\ pc' = "parsed"
    /\ UNCHANGED <<inputs, settings, result, stdout>>

\* let settings = get_configuration(optional_settings).expect(..);
GetConfiguration ==
    /\ pc = "parsed"
    /\ \E order \in Orders(EnvKeys(environ)) :
          LET built == BuiltConfig(optional_settings, order)
              r == get_configuration(optional_settings, order)
          IN /\ settings' = IF built.ok THEN Some(built.val) ELSE None
             /\ result' = Some(r)
             /\ pc' = IF r.ok THEN "configured" ELSE "panicked"
    /\ UNCHANGED <<inputs, optional_settings, stdout>>

PrintSettings ==
    /\ pc = "configured"
    /\ stdout' = Append(stdout, DebugSettings(Unwrap(result).val))
    /\ pc' = "printed"
    /\ UNCHANGED <<inputs, optional_settings, settings, result>>

PrintSecret ==
    /\ pc = "printed"
    /\ stdout' = Append(stdout, SecretLine(Unwrap(result).val))
    /\ pc' = "done"
    /\ UNCHANGED <<inputs, optional_settings, settings, result>>

Next == CliParse \/ GetConfiguration \/ PrintSettings \/ PrintSecret

Spec == Init /\ [][Next]_vars

(***************************************************************************)
(* Vocabulary of the properties: what each source says about a leaf of     *)
(* Settings, read off the inputs and not off the merge.                    *)
(***************************************************************************)
Called == pc \notin {"start", "parsed"}
Res == Unwrap(result)
Resolved == Called /\ Res.ok
Built == Called /\ IsSome(settings)
Tree == Unwrap(settings).val

Leaves == {<<"somebool">>, <<"somestring">>, <<"somesecret">>,
           <<"somestruct", "someint">>, <<"someoptionalstring">>}
RequiredLeaves == Leaves \ {<<"someoptionalstring">>}

\* The value a document holds at a path, if any.
At(doc, p) ==
    IF p[1] \notin DOMAIN doc THEN None
    ELSE IF Len(p) = 1 THEN Some(doc[p[1]])
    ELSE IF doc[p[1]].kind = "Table" /\ p[2] \in DOMAIN doc[p[1]].val
         THEN Some(doc[p[1]].val[p[2]])
    ELSE None

EnvName(p) ==
    <<"CONFIG_PLAYGROUND">> \o
    [i \in 1..Len(p) |->
        CASE p[i] = "somebool" -> "SOMEBOOL"
          [] p[i] = "somestring" -> "SOMESTRING"
          [] p[i] = "somesecret" -> "SOMESECRET"
          [] p[i] = "somestruct" -> "SOMESTRUCT"
          [] p[i] = "someint" -> "SOMEINT"
          [] p[i] = "someoptionalstring" -> "SOMEOPTIONALSTRING"]

Priority == <<"overrides", "environment", "runtime_file", "baseline">>

\* The source gives the leaf p a value.
Sets(src, p) ==
    CASE src = "overrides" -> p = <<"somestring">> /\ IsSome(argSomestring)
      [] src = "environment" -> EnvName(p) \in DOMAIN environ
      [] src = "runtime_file" ->
            IsSome(At(runtimeFile.doc, p)) /\ Unwrap(At(runtimeFile.doc, p)).kind # "Table"
      [] src = "baseline" ->
            IsSome(At(baseCfg.doc, p)) /\ Unwrap(At(baseCfg.doc, p)).kind # "Table"

\* The source gives the record that holds p a scalar value.
Shadows(src, p) ==
    /\ Len(p) = 2
    /\ CASE src = "overrides" -> FALSE
         [] src = "environment" -> EnvName(<<p[1]>>) \in DOMAIN environ
         [] src = "runtime_file" ->
               p[1] \in DOMAIN runtimeFile.doc /\ runtimeFile.doc[p[1]].kind # "Table"
         [] src = "baseline" ->
               p[1] \in DOMAIN baseCfg.doc /\ baseCfg.doc[p[1]].kind # "Table"

Mentions(src, p) == Sets(src, p) \/ Shadows(src, p)

SourceValue(src, p) ==
    CASE src = "overrides" -> String(Unwrap(argSomestring))
      [] src = "environment" -> String(environ[EnvName(p)])
      [] src = "runtime_file" -> Unwrap(At(runtimeFile.doc, p))
      [] src = "baseline" -> Unwrap(At(baseCfg.doc, p))

\* The highest-priority source that mentions p, or "none".
Top(p) ==
    IF \E i \in 1..4 : Mentions(Priority[i], p)
    THEN Priority[CHOOSE i \in 1..4 :
                     /\ Mentions(Priority[i], p)
                     /\ \A j \in 1..(i - 1) : ~Mentions(Priority[j], p)]
    ELSE "none"

\* The number a numeral denotes, with an optional leading "+".
Denoted(s) ==
    LET d == IF s # <<>> /\ s[1] = "+" THEN Tail(s) ELSE s
    IN Canon([i \in 1..Len(d) |-> DigitVal[d[i]]])

IsNumeral(s) == s # <<>> /\ \A i \in 1..Len(s) : s[i] \in DOMAIN DigitVal

\* The field of Settings a leaf names, and the typed reading of a value.
FieldOf(s, p) ==
    CASE p = <<"somebool">> -> s.somebool
      [] p = <<"somestring">> -> s.somestring
      [] p = <<"somesecret">> -> s.somesecret
      [] p = <<"somestruct", "someint">> -> s.somestruct.someint
      [] p = <<"someoptionalstring">> -> s.someoptionalstring

Meaning(p, v) ==
    CASE p = <<"somebool">> ->
            IF v.kind = "Boolean" THEN v.val ELSE ToLowercase(v.val) \in TrueWords
      [] p = <<"somestruct", "someint">> ->
            IF v.kind = "I64" THEN NatDigits(v.val) ELSE Denoted(v.val)
      [] p = <<"someoptionalstring">> -> Some(v.val)
      [] OTHER -> v.val

(***************************************************************************)
(* Properties                                                              *)
(***************************************************************************)

\* C1: when ./configuration/settings.toml does not exist, get_configuration
\* does not fail because of it: the step is skipped, the configuration is
\* built from the other three sources and resolution goes on to the
\* deserialization.
C1_AbsentRuntimeFileIsSkipped ==
    (Called /\ cwdOk /\ baseCfg.kind = "Toml" /\ runtimeFile.kind = "NotFound") =>
        /\ Built
        /\ \A p \in Leaves :
              Top(p) = "baseline" /\ Sets("baseline", p) =>
                  At(Tree, p) = Some(SourceValue("baseline", p))
        /\ (Res.ok \/ Res.err.stage = "deserialize")

\* C2: with a valid baseline, no runtime file, no prefixed environment
\* variable and every OptionalSettings field unset, get_configuration returns
\* Ok with every field of Settings equal to the baseline's value.
C2_BaselineAloneResolvesToBaseline ==
    (/\ Called /\ cwdOk /\ baseCfg \in ValidBaselines
     /\ runtimeFile.kind = "NotFound"
     /\ \A n \in DOMAIN environ : n[1] # APP_NAME
     /\ argSomestring = None) =>
        /\ Res.ok
        /\ \A p \in Leaves :
              FieldOf(Res.val, p) =
                  IF Sets("baseline", p) THEN Meaning(p, SourceValue("baseline", p))
                  ELSE None

\* The value the sources below the caller's overrides give somestring.
LowerSomestring ==
    LET p == <<"somestring">>
    IN IF Sets("environment", p) THEN SourceValue("environment", p)
       ELSE IF Sets("runtime_file", p) THEN SourceValue("runtime_file", p)
       ELSE SourceValue("baseline", p)

\* C3: an OptionalSettings field left unset contributes no key to the merge,
\* so the built tree and the resolved Settings hold the value of the highest
\* source below (environment, runtime file, baseline); a field that is set
\* is the value of the built tree and of the resolved Settings whatever the
\* sources below contain.
C3_UnsetOverrideKeepsLower_SetOverrideWins ==
    /\ (Built /\ argSomestring = None /\ Sets("baseline", <<"somestring">>)) =>
            At(Tree, <<"somestring">>) = Some(LowerSomestring)
    /\ (Built /\ IsSome(argSomestring)) =>
            At(Tree, <<"somestring">>) = Some(String(Unwrap(argSomestring)))
    /\ Resolved =>
            Res.val.somestring =
                IF IsSome(argSomestring) THEN Unwrap(argSomestring)
                ELSE LowerSomestring.val

C3_Witness ==
    /\ pc = "done" /\ argSomestring = None
    /\ Sets("runtime_file", <<"somestring">>) /\ ~Sets("environment", <<"somestring">>)
    /\ Res.val.somestring = sRuntime

\* C4: a key the prefixed environment defines and no caller override sets
\* resolves to the environment's value, whatever the baseline and the
\* runtime file define for it.
C4_EnvironmentOverridesFiles ==
    Resolved =>
        \A p \in Leaves :
            (Sets("environment", p) /\ ~Sets("overrides", p)) =>
                FieldOf(Res.val, p) = Meaning(p, String(environ[EnvName(p)]))

C4_Witness ==
    /\ pc = "done" /\ argSomestring = None
    /\ Sets("environment", <<"somestring">>) /\ Sets("runtime_file", <<"somestring">>)
    /\ Sets("baseline", <<"somestring">>)
    /\ Res.val.somestring = sEnv

\* C5: with no environment variable and no caller override for a key, a key
\* present in both the baseline and the runtime file has the runtime file's
\* value, and a key present only in the baseline keeps the baseline's value:
\* the runtime file does not remove or reset keys it does not mention.
C5_RuntimeOverBaseline_BaselineOnlyPreserved ==
    \A p \in Leaves :
        (~Mentions("environment", p) /\ ~Sets("overrides", p)) =>
            /\ (Built /\ Sets("runtime_file", p)) =>
                    At(Tree, p) = Some(SourceValue("runtime_file", p))
            /\ (Built /\ Sets("baseline", p) /\ ~Mentions("runtime_file", p)) =>
                    At(Tree, p) = Some(SourceValue("baseline", p))
            /\ (Resolved /\ Sets("runtime_file", p)) =>
                    FieldOf(Res.val, p) = Meaning(p, SourceValue("runtime_file", p))
            /\ (Resolved /\ Sets("baseline", p) /\ ~Sets("runtime_file", p)) =>
                    FieldOf(Res.val, p) = Meaning(p, SourceValue("baseline", p))

C5_Witness ==
    /\ pc = "done" /\ argSomestring = None
    /\ \A n \in DOMAIN environ : n[1] # APP_NAME
    /\ DOMAIN runtimeFile.doc = {"somebool", "somestruct"}
    /\ ~Mentions("runtime_file", <<"somestruct", "someint">>)
    /\ Res.val.somestring = sBase /\ Res.val.somebool
    /\ Res.val.somestruct.someint = <<1>>

\* C6: a failing stage makes get_configuration return Err and no later stage
\* repairs it: a malformed runtime file, a required field missing from the
\* built tree and a value that cannot be coerced to its field type each end
\* in Err; an Ok result carries every required field, read from the built
\* tree.
C6_FailuresAreNotMasked ==
    Called =>
        /\ runtimeFile.kind = "Malformed" => ~Res.ok
        /\ baseCfg.kind = "Malformed" => ~Res.ok
        /\ ~Built => ~Res.ok
        /\ (Built /\ \E p \in RequiredLeaves : At(Tree, p) = None) => ~Res.ok
        /\ (Built /\ At(Tree, <<"somestruct", "someint">>) \in
                        {Some(String(sAbc)), Some(String(sEmpty))}) => ~Res.ok
        /\ Res.ok =>
              /\ pc # "panicked"
              /\ DOMAIN Res.val = {"somebool", "somestring", "somesecret",
                                   "somestruct", "someoptionalstring"}
              /\ DOMAIN Res.val.somestruct = {"someint"}
              /\ \A p \in RequiredLeaves :
                    /\ At(Tree, p) # None
                    /\ FieldOf(Res.val, p) = Meaning(p, Unwrap(At(Tree, p)))
        /\ ~Res.ok => pc = "panicked" /\ stdout = <<>>

C6_Witness ==
    /\ pc = "panicked" /\ cwdOk /\ baseCfg \in ValidBaselines
    /\ runtimeFile.kind = "Malformed"
    /\ ~Res.ok /\ Res.err.stage = "runtime_file"

\* The stages the error taxonomy of the documentation tells apart.
TaxonomyStages == {"baseline", "runtime_file", "environment", "serialize", "deserialize"}

\* C7 as stated: the context of a returned error identifies the failing
\* stage, no other stage of the taxonomy attaches the same context.
C7_ContextIdentifiesStage ==
    (Called /\ ~Res.ok /\ Res.err.stage \in TaxonomyStages) =>
        \A other \in TaxonomyStages \ {Res.err.stage} :
            ContextOf(other) # Res.err.context

\* The statement of get_configuration a stage fails in.
StepOf(stage) ==
    CASE stage \in {"baseline", "runtime_file", "environment", "overrides"} -> "build"
      [] OTHER -> stage

\* C7 amended: a failure is one error whose context identifies the failing
\* statement of get_configuration: current_dir, the override serialization,
\* build or try_deserialize.  The baseline, the runtime file, the environment
\* and the override document all fail inside build, under its one context.
C7_ContextIdentifiesStatement ==
    (Called /\ ~Res.ok) =>
        /\ Res.err.context =
              CASE StepOf(Res.err.stage) = "current_dir" ->
                        "Failed to determine current directory"
                [] StepOf(Res.err.stage) = "serialize" ->
                        "Couldn't parse user provided settings"
                [] StepOf(Res.err.stage) = "build" -> "Couldn't build settings"
                [] StepOf(Res.err.stage) = "deserialize" -> "Error deserializing settings"
        /\ \A other \in Stages :
              ContextOf(other) = Res.err.context <=> StepOf(other) = StepOf(Res.err.stage)
        /\ Res.err.stage = "deserialize" <=> Built

C7_Witness ==
    /\ pc = "panicked" /\ cwdOk /\ baseCfg \in ValidBaselines
    /\ runtimeFile.kind = "Malformed"
    /\ Res.err.context = "Couldn't build settings"
    /\ ContextOf("baseline") = Res.err.context

\* The string that won somestruct.someint, when the rest of the tree
\* deserializes: a valid baseline, and a string at someint in the built tree.
WinningNumeral == Unwrap(At(Tree, <<"somestruct", "someint">>)).val
StringWonSomeint ==
    /\ Built /\ baseCfg \in ValidBaselines
    /\ At(Tree, <<"somestruct", "someint">>) # None
    /\ Unwrap(At(Tree, <<"somestruct", "someint">>)).kind = "String"

\* C8 as stated: a string that is a valid unsigned decimal numeral resolves
\* to the number it denotes, any other string fails the deserialization.
C8_NumeralsCoerce_OthersFail ==
    StringWonSomeint =>
        IF IsNumeral(WinningNumeral)
        THEN Res.ok /\ Res.val.somestruct.someint = Denoted(WinningNumeral)
        ELSE ~Res.ok /\ Res.err.context = "Error deserializing settings"

\* What u64 accepts: digits, after an optional "+", denoting at most 2^64 - 1.
IsU64Numeral(s) ==
    LET d == IF s # <<>> /\ s[1] = "+" THEN Tail(s) ELSE s
    IN IsNumeral(d) /\ ~Exceeds(Denoted(d), U64Max)

\* C8 amended: a winning string resolves to the number it denotes when it is
\* a decimal numeral, with an optional leading "+", of value at most
\* 2^64 - 1; any other string fails with the deserialization error, and no
\* lower-priority value is used instead.
C8_U64NumeralsCoerce_OthersFail ==
    StringWonSomeint =>
        IF IsU64Numeral(WinningNumeral)
        THEN Res.ok /\ Res.val.somestruct.someint = Denoted(WinningNumeral)
        ELSE /\ ~Res.ok
             /\ Res.err.stage = "deserialize"
             /\ Res.err.context = "Error deserializing settings"

C8_Witness ==
    /\ pc = "panicked" /\ StringWonSomeint
    /\ Sets("baseline", <<"somestruct", "someint">>)
    /\ environ[EnvName(<<"somestruct", "someint">>)] = sAbc
    /\ WinningNumeral = sAbc
    /\ Res.err.context = "Error deserializing settings"

\* The line shows the text s.
Shows(line, s) ==
    \E i \in 1..Len(line) :
        \/ "raw" \in DOMAIN line[i] /\ line[i].raw = s
        \/ "quoted" \in DOMAIN line[i] /\ line[i].quoted = s

C10_PerLeafPrecedence ==
    /\ Built =>
          \A p \in Leaves :
              LET top == Top(p)
              IN CASE top = "none" -> At(Tree, p) = None
                   [] top # "none" /\ Sets(top, p) /\ ~Shadows(top, p) ->
                          At(Tree, p) = Some(SourceValue(top, p))
                   [] top # "none" /\ ~Sets(top, p) -> At(Tree, p) = None
                   [] OTHER -> At(Tree, p) \in {None, Some(SourceValue(top, p))}
    /\ (/\ Called /\ cwdOk
        /\ baseCfg = Toml(BaseScenario)
        /\ runtimeFile = Toml(Pairs({<<"somestring", String(sRuntime)>>}))
        /\ environ = Pairs({<<<<"CONFIG_PLAYGROUND", "SOMESTRUCT", "SOMEINT">>, s42>>})
        /\ argSomestring = Some(sOverride)) =>
          Res = Ok([somebool |-> FALSE, somestring |-> sOverride,
                    somesecret |-> sSecret, somestruct |-> [someint |-> <<4, 2>>],
                    someoptionalstring |-> None])

C10_Witness ==
    /\ pc = "done"
    /\ baseCfg = Toml(BaseScenario)
    /\ runtimeFile = Toml(Pairs({<<"somestring", String(sRuntime)>>}))
    /\ environ = Pairs({<<<<"CONFIG_PLAYGROUND", "SOMESTRUCT", "SOMEINT">>, s42>>})
    /\ argSomestring = Some(sOverride)
    /\ Res.val.somestring = sOverride /\ Res.val.somestruct.someint = <<4, 2>>

====
